---- MODULE Spec2Model ----
(***************************************************************************)
(* A model of three scripts of the aws-tools repository:                   *)
(*   propagate-tags.py            (report / propagate an EC2 tag)          *)
(*   delete-tag.py                (report / delete an EC2 tag)             *)
(*   cloudtrail-watch-for-reboot.py (alert on RebootInstances records)     *)
(*                                                                         *)
(* One run of one script is one behaviour.  Every cloud API call is one    *)
(* step, which either succeeds or raises; the call is appended to `calls`. *)
(*                                                                         *)
(* Python values: a str the code takes apart or tests for emptiness (ids,   *)
(* tag keys and values, ARNs) is a tuple of characters, so "" is <<>>;      *)
(* None is the tuple None below, which is no str because "None" is no      *)
(* character.  A str the code only compares is a TLA+ string.              *)
(***************************************************************************)
EXTENDS Integers, Sequences, FiniteSets, TLC

VARIABLES
    script,      \* which script this run executes
    args,        \* the parsed command line (propagate-tags.py, delete-tag.py)
    ec2,         \* the account's EC2 resources other than tags: attachments, ...
    tags,        \* resource id -> its tag list, a sequence of [Key, Value]
    tags0,       \* the tag lists when the run started (history variable)
    pc,          \* position of the script
    instances,   \* instances still to iterate (descriptions: id and tags)
    volumes,     \* volumes still to iterate in the current loop
    snapshots,   \* snapshots still to iterate in the current loop
    calls,       \* every API call issued so far, in order
    output,      \* what the script printed / logged, in order
    event,       \* the S3 notification event (cloudtrail-watch-for-reboot.py)
    bucket,      \* log file object key -> its CloudTrail records
    files,       \* log files of the event still to process
    records,     \* records of the current log file still to process
    items,       \* instancesSet items of the current record still to process
    topic        \* sns_topic_arn and name_tag of the current item

vars == << script, args, ec2, tags, tags0, pc, instances, volumes, snapshots,
           calls, output, event, bucket, files, records, items, topic >>

---------------------------------------------------------------------------
(* Python values *)

None == << "None" >>

\* bool(x) for x a str or None
Truthy(x) == x # None /\ x # << >>

\* the arguments pass the checks of the command line
NoError == ""

Min(S) == CHOOSE x \in S : \A y \in S : x <= y

---------------------------------------------------------------------------
(* The EC2 account the scripts run against *)

\* the number of snapshots of the account
MaxSnapshots == 2

\* resource ids: a letter for the kind and a number
I1 == << "i", 1 >>
I2 == << "i", 2 >>
V1 == << "v", 1 >>
V2 == << "v", 2 >>
S1 == << "s", 1 >>

\* in the order the describe calls return them
AllInstances == << I1, I2 >>
AllVolumes   == << V1, V2 >>
AllSnapshots == [n \in 1..MaxSnapshots |-> << "s", n >>]

Range(s) == { s[i] : i \in DOMAIN s }

Instances == Range(AllInstances)
Volumes   == Range(AllVolumes)
Snapshots == Range(AllSnapshots)
Resources == Instances \cup Volumes \cup Snapshots

AppName == << "A", "p", "p" >>
Name    == << "N", "a", "m", "e" >>
ValA    == << "a" >>
ValB    == << "b" >>

Tag(k, v) == [Key |-> k, Value |-> v]

\* the tag lists each resource may start with
TagLists(r) ==
    CASE r = I1 -> { << Tag(Name, ValA) >>,
                     << Tag(AppName, << >>) >>,
                     << Tag(AppName, ValA) >>,
                     << Tag(Name, ValA), Tag(AppName, ValB) >> }
      [] r = I2 -> { << >>,
                     << Tag(AppName, ValA) >>,
                     << Tag(Name, ValA), Tag(AppName, ValB) >> }
      [] r = V1 -> { << >>,
                     << Tag(AppName, ValA) >>,
                     << Tag(Name, ValB), Tag(AppName, ValB) >> }
      [] r = V2 -> { << >>,
                     << Tag(Name, ValB), Tag(AppName, ValB) >> }
      [] OTHER  -> { << >>,
                     << Tag(AppName, ValA) >> }

InitialTags ==
    { t \in [Resources -> UNION { TagLists(r) : r \in Resources }] :
        \A r \in Resources : t[r] \in TagLists(r) }

Vpc1 == << "vpc", "1" >>
Vpc2 == << "vpc", "2" >>

\* attachment[v]: the instances volume v is attached to (Multi-Attach allows
\* several); volume[s]: the volume snapshot s was taken of, the first volume
\* for every snapshot; state, vpc: of each instance
Accounts ==
    { [attachment |-> [v \in Volumes |-> IF v = V1 THEN a ELSE {I2}],
       volume     |-> [s \in Snapshots |-> V1],
       state      |-> [i \in Instances |-> IF i = I1 THEN "running" ELSE st],
       vpc        |-> [i \in Instances |-> IF i = I1 THEN Vpc1 ELSE Vpc2]]
        : a \in SUBSET Instances, st \in {"stopped", "terminated"} }

---------------------------------------------------------------------------
(* The EC2 API *)

HasKey(list, key) == \E n \in DOMAIN list : list[n].Key = key

\* CreateTags: adds the tag or overwrites the value of an existing key
CreateTags(list, key, value) ==
    IF HasKey(list, key)
    THEN [n \in DOMAIN list |-> IF list[n].Key = key THEN Tag(key, value) ELSE list[n]]
    ELSE Append(list, Tag(key, value))

\* DeleteTags with a key and no value: removes the key whatever its value
DeleteTags(list, key) == SelectSeq(list, LAMBDA t : t.Key # key)

\* one element {'Name': n, 'Values': vs} of a Filters argument
Filter(n, vs) == [Name |-> n, Values |-> vs]

\* does resource r satisfy filter f, the tag lists being tg
Matches(tg, r, f) ==
    CASE f.Name = "instance-state-name"    -> ec2.state[r] \in Range(f.Values)
      [] f.Name = "vpc-id"                 -> ec2.vpc[r] \in Range(f.Values)
      [] f.Name = "instance-id"            -> r \in Range(f.Values)
      [] f.Name = "tag-key"                -> \E k \in Range(f.Values) : HasKey(tg[r], k)
      [] f.Name = "attachment.instance-id" -> ec2.attachment[r] \cap Range(f.Values) # {}
      [] f.Name = "volume-id"              -> ec2.volume[r] \in Range(f.Values)

\* the resources of `all` that satisfy every filter, in the order of `all`
Select(tg, all, filters) ==
    SelectSeq(all, LAMBDA r : \A n \in DOMAIN filters : Matches(tg, r, filters[n]))

\* the description of resource r a describe call returns
Describe(r) == [id |-> r, tags |-> tags[r]]

\* the response of a describe call: the descriptions of the selected resources
DescribeAll(all, filters) ==
    LET sel == Select(tags, all, filters)
    IN  [n \in DOMAIN sel |-> Describe(sel[n])]

Call(api, target, ok) == [api |-> api, target |-> target, ok |-> ok]

---------------------------------------------------------------------------
(* propagate-tags.py *)

\* the value of tag search_tag in a tag list, None when the list is empty or
\* holds no such key
search_for_tag(list_of_dicts, search_tag) ==
    IF list_of_dicts = << >>
    THEN None
    ELSE LET found == { n \in DOMAIN list_of_dicts : list_of_dicts[n].Key = search_tag }
         IN  IF found # {} THEN list_of_dicts[Min(found)].Value ELSE None

set_tag(resource, key, value) ==
    [tags EXCEPT ![resource] = CreateTags(@, key, value)]

\* a variant that compares only whether the tag is defined on both
volume_tag_match_defined(instance, volume, tag_key) ==
    (search_for_tag(instance.tags, tag_key) = None)
        = (search_for_tag(volume.tags, tag_key) = None)

volume_tag_match(instance, volume, tag_key) ==
    search_for_tag(instance.tags, tag_key) = search_for_tag(volume.tags, tag_key)

snapshot_tag_match(instance, snapshot, tag_key) ==
    search_for_tag(instance.tags, tag_key) = search_for_tag(snapshot.tags, tag_key)

\* lines 94-101 and 106-113: the Tag Status column of the report, `match`
\* being volume_tag_match or snapshot_tag_match of the two resources
tag_status(instance, match, tag_key) ==
    IF Truthy(search_for_tag(instance.tags, tag_key))
    THEN IF match THEN "Match" ELSE "Differs"
    ELSE "Missing on Instance"

\* a variant that takes an empty value for a value
tag_defined_not_none(instance, tag_key) ==
    search_for_tag(instance.tags, tag_key) # None

\* line 165: is the tag defined on the instance with a value
tag_defined(instance, tag_key) == Truthy(search_for_tag(instance.tags, tag_key))

\* a variant that does not look at --dry-run
propagate_status_no_dry_run(match, dry_run) ==
    IF match THEN "Already Matches" ELSE "Updating"

\* lines 132-140 and 146-154: the Tag Status of a propagation, without its
\* values, `match` being volume_tag_match or snapshot_tag_match
propagate_status(match, dry_run) ==
    IF match
    THEN "Already Matches"
    ELSE IF dry_run THEN "Would Update" ELSE "Updating"

\* the command lines: the mode flags and --tag in every combination, with no
\* limiting option, with --instance, or with --vpc and --tag-key
PropagateLimits ==
    { [instance |-> None, vpc |-> None, tag_key |-> None],
      [instance |-> I1,   vpc |-> None, tag_key |-> None],
      [instance |-> None, vpc |-> Vpc2, tag_key |-> Name] }

PropagateArgs ==
    { [report |-> r, propagate |-> p, dry_run |-> d, tag |-> t,
       instance |-> l.instance, vpc |-> l.vpc, tag_key |-> l.tag_key]
        : r \in BOOLEAN, p \in BOOLEAN, d \in BOOLEAN, t \in {None, AppName},
          l \in PropagateLimits }

\* the command line without any argument
PropagateNoArgs ==
    [report |-> FALSE, propagate |-> FALSE, dry_run |-> FALSE, tag |-> None,
     instance |-> None, vpc |-> None, tag_key |-> None]

\* lines 271-282
PropagateFilters ==
    << Filter("instance-state-name", << "running", "stopped" >>) >>
    \o (IF Truthy(args.vpc) THEN << Filter("vpc-id", << args.vpc >>) >> ELSE << >>)
    \o (IF Truthy(args.instance) THEN << Filter("instance-id", << args.instance >>) >> ELSE << >>)
    \o (IF Truthy(args.tag_key) THEN << Filter("tag-key", << args.tag_key >>) >> ELSE << >>)

\* lines 227-229 and 245-253: the usage error of the command line
PropagateUsageError ==
    IF args = PropagateNoArgs THEN "help"
    ELSE IF args.report /\ args.propagate THEN "Cannot specify both"
    ELSE IF ~(args.report \/ args.propagate) THEN "Must specify either"
    ELSE NoError

\* the except clause of lines 295-297: report the error and exit
PropagateFail(call) ==
    /\ calls' = Append(calls, call)
    /\ output' = Append(output, << "ERROR" >>)
    /\ pc' = "error"
    /\ UNCHANGED << tags, instances, volumes, snapshots >>

\* lines 245-253: the checks made on the parsed arguments
PropagateParseArgs ==
    /\ script = "propagate" /\ pc = "start"
    /\ IF PropagateUsageError # NoError
       THEN /\ pc' = "usage"
            /\ output' = Append(output, << PropagateUsageError >>)
       ELSE /\ pc' = "session"
            /\ output' = output
    /\ UNCHANGED << script, args, ec2, tags, tags0, instances, volumes, snapshots,
                    calls, event, bucket, files, records, items, topic >>

\* lines 258-268: the session and the resource object; no request is sent
PropagateSession ==
    /\ script = "propagate" /\ pc = "session"
    /\ \E ok \in BOOLEAN :
          IF ok
          THEN pc' = "filter" /\ output' = output
          ELSE pc' = "error" /\ output' = Append(output, << "ERROR: profile" >>)
    /\ UNCHANGED << script, args, ec2, tags, tags0, instances, volumes, snapshots,
                    calls, event, bucket, files, records, items, topic >>

\* line 287, evaluated when the loop over the collection starts
PropagateFilterInstances ==
    /\ script = "propagate" /\ pc = "filter"
    /\ \E ok \in BOOLEAN :
          IF ok
          THEN /\ calls' = Append(calls, Call("describe_instances", None, TRUE))
               /\ instances' = DescribeAll(AllInstances, PropagateFilters)
               /\ output' = Append(output, << "header" >>)
               /\ pc' = "instances"
               /\ UNCHANGED << tags, volumes, snapshots >>
          ELSE PropagateFail(Call("describe_instances", None, FALSE))
    /\ UNCHANGED << script, args, ec2, tags0, event, bucket, files, records, items, topic >>

\* the volumes attached to the instance: instance.volumes.all()
DescribeInstanceVolumes(i) ==
    \E ok \in BOOLEAN :
       IF ok
       THEN /\ calls' = Append(calls, Call("describe_volumes", i.id, TRUE))
            /\ volumes' = DescribeAll(AllVolumes, << Filter("attachment.instance-id", << i.id >>) >>)
            /\ pc' = "volumes"
            /\ UNCHANGED << tags, instances, snapshots, output >>
       ELSE PropagateFail(Call("describe_volumes", i.id, FALSE))

\* print_report, lines 121-122: the next instance of the report
print_report ==
    /\ script = "propagate" /\ pc = "instances" /\ args.report
    /\ instances # << >>
    /\ DescribeInstanceVolumes(Head(instances))
    /\ UNCHANGED << script, args, ec2, tags0, event, bucket, files, records, items, topic >>

\* propagate_tag, lines 163-166 and 172-174: the next instance
propagate_tag ==
    /\ script = "propagate" /\ pc = "instances" /\ ~args.report /\ args.propagate
    /\ instances # << >>
    /\ LET instance == Head(instances) IN
         IF tag_defined(instance, args.tag)
         THEN DescribeInstanceVolumes(instance)
         ELSE /\ output' = Append(output, << "Skipping", instance.id >>)
              /\ instances' = Tail(instances)
              /\ UNCHANGED << tags, volumes, snapshots, calls, pc >>
    /\ UNCHANGED << script, args, ec2, tags0, event, bucket, files, records, items, topic >>

\* print_volume_tag_status, line 124
print_volume_tag_status ==
    /\ script = "propagate" /\ pc = "volumes" /\ args.report
    /\ volumes # << >>
    /\ output' = Append(output, << Head(instances).id, Head(volumes).id, None,
                                   tag_status(Head(instances),
                                              volume_tag_match(Head(instances), Head(volumes), args.tag),
                                              args.tag) >>)
    /\ pc' = "describe_snapshots"
    /\ UNCHANGED << script, args, ec2, tags, tags0, instances, volumes, snapshots,
                    calls, event, bucket, files, records, items, topic >>

\* propagate_tag_to_volume, line 168
propagate_tag_to_volume ==
    /\ script = "propagate" /\ pc = "volumes" /\ ~args.report /\ args.propagate
    /\ volumes # << >>
    /\ LET instance == Head(instances)
           volume == Head(volumes)
           new_tag_value == search_for_tag(instance.tags, args.tag)
           status == propagate_status(volume_tag_match(instance, volume, args.tag), args.dry_run)
           line == << instance.id, volume.id, None, status >>
       IN  IF status = "Updating"
           THEN \E ok \in BOOLEAN :
                  IF ok
                  THEN /\ calls' = Append(calls, Call("create_tags", volume.id, TRUE))
                       /\ tags' = set_tag(volume.id, args.tag, new_tag_value)
                       /\ output' = Append(output, line)
                       /\ pc' = "describe_snapshots"
                       /\ UNCHANGED << instances, volumes, snapshots >>
                  ELSE PropagateFail(Call("create_tags", volume.id, FALSE))
           ELSE /\ output' = Append(output, line)
                /\ pc' = "describe_snapshots"
                /\ UNCHANGED << tags, calls, instances, volumes, snapshots >>
    /\ UNCHANGED << script, args, ec2, tags0, event, bucket, files, records, items, topic >>

\* lines 125 and 169: the snapshots of the volume, volume.snapshots.all()
PropagateDescribeSnapshots ==
    /\ script = "propagate" /\ pc = "describe_snapshots"
    /\ LET volume == Head(volumes) IN
       \E ok \in BOOLEAN :
          IF ok
          THEN /\ calls' = Append(calls, Call("describe_snapshots", volume.id, TRUE))
               /\ snapshots' = DescribeAll(AllSnapshots, << Filter("volume-id", << volume.id >>) >>)
               /\ pc' = "snapshots"
               /\ UNCHANGED << tags, instances, volumes, output >>
          ELSE PropagateFail(Call("describe_snapshots", volume.id, FALSE))
    /\ UNCHANGED << script, args, ec2, tags0, event, bucket, files, records, items, topic >>

\* print_snapshot_tag_status, line 127
print_snapshot_tag_status ==
    /\ script = "propagate" /\ pc = "snapshots" /\ args.report
    /\ snapshots # << >>
    /\ output' = Append(output, << Head(instances).id, Head(volumes).id, Head(snapshots).id,
                                   tag_status(Head(instances),
                                              snapshot_tag_match(Head(instances), Head(snapshots), args.tag),
                                              args.tag) >>)
    /\ snapshots' = Tail(snapshots)
    /\ UNCHANGED << script, args, ec2, tags, tags0, pc, instances, volumes,
                    calls, event, bucket, files, records, items, topic >>

\* propagate_tag_to_snapshot, line 171
propagate_tag_to_snapshot ==
    /\ script = "propagate" /\ pc = "snapshots" /\ ~args.report /\ args.propagate
    /\ snapshots # << >>
    /\ LET instance == Head(instances)
           volume == Head(volumes)
           snapshot == Head(snapshots)
           new_tag_value == search_for_tag(instance.tags, args.tag)
           status == propagate_status(snapshot_tag_match(instance, snapshot, args.tag), args.dry_run)
           line == << instance.id, volume.id, snapshot.id, status >>
       IN  IF status = "Updating"
           THEN \E ok \in BOOLEAN :
                  IF ok
                  THEN /\ calls' = Append(calls, Call("create_tags", snapshot.id, TRUE))
                       /\ tags' = set_tag(snapshot.id, args.tag, new_tag_value)
                       /\ output' = Append(output, line)
                       /\ snapshots' = Tail(snapshots)
                       /\ UNCHANGED << instances, volumes, pc >>
                  ELSE PropagateFail(Call("create_tags", snapshot.id, FALSE))
           ELSE /\ output' = Append(output, line)
                /\ snapshots' = Tail(snapshots)
                /\ UNCHANGED << tags, calls, instances, volumes, pc >>
    /\ UNCHANGED << script, args, ec2, tags0, event, bucket, files, records, items, topic >>

\* the loop over the snapshots of a volume is exhausted: the next volume
PropagateEndSnapshots ==
    /\ script = "propagate" /\ pc = "snapshots" /\ snapshots = << >>
    /\ volumes' = Tail(volumes)
    /\ pc' = "volumes"
    /\ UNCHANGED << script, args, ec2, tags, tags0, instances, snapshots, calls, output,
                    event, bucket, files, records, items, topic >>

\* the loop over the volumes of an instance is exhausted (lines 128, 174)
PropagateEndVolumes ==
    /\ script = "propagate" /\ pc = "volumes" /\ volumes = << >>
    /\ instances' = Tail(instances)
    /\ output' = Append(output, << "rule" >>)
    /\ pc' = "instances"
    /\ UNCHANGED << script, args, ec2, tags, tags0, volumes, snapshots, calls,
                    event, bucket, files, records, items, topic >>

\* the loop over the instances is exhausted: the script ends
PropagateEndInstances ==
    /\ script = "propagate" /\ pc = "instances" /\ instances = << >>
    /\ pc' = "done"
    /\ UNCHANGED << script, args, ec2, tags, tags0, instances, volumes, snapshots, calls,
                    output, event, bucket, files, records, items, topic >>

NoEvent == [Records |-> << >>]
NoTopic == [sns_topic_arn |-> None, name_tag |-> None]

InitPropagate ==
    /\ script = "propagate"
    /\ tags \in InitialTags
    /\ ec2 \in Accounts
    /\ args \in PropagateArgs
    /\ tags0 = tags
    /\ pc = "start"
    /\ instances = << >> /\ volumes = << >> /\ snapshots = << >>
    /\ calls = << >> /\ output = << >>
    /\ event = NoEvent /\ bucket = << >> /\ files = << >> /\ records = << >>
    /\ items = << >> /\ topic = NoTopic

NextPropagate ==
    \/ PropagateParseArgs
    \/ PropagateSession
    \/ PropagateFilterInstances
    \/ print_report
    \/ propagate_tag
    \/ print_volume_tag_status
    \/ propagate_tag_to_volume
    \/ PropagateDescribeSnapshots
    \/ print_snapshot_tag_status
    \/ propagate_tag_to_snapshot
    \/ PropagateEndSnapshots
    \/ PropagateEndVolumes
    \/ PropagateEndInstances

SpecPropagate == InitPropagate /\ [][NextPropagate]_vars

---------------------------------------------------------------------------
(* delete-tag.py *)

\* lines 12-20
DeleteSearchForTag(list_of_dicts, search_tag) ==
    IF list_of_dicts = << >>
    THEN None
    ELSE LET found == { n \in DOMAIN list_of_dicts : list_of_dicts[n].Key = search_tag }
         IN  IF found # {} THEN list_of_dicts[Min(found)].Value ELSE None

\* the command lines: every combination of the mode flags, with --tag absent,
\* empty or AppName, and with or without --instance
DeleteArgs ==
    [ report : BOOLEAN, delete : BOOLEAN, dry_run : BOOLEAN,
      tag : {None, << >>, AppName}, instance : {None, I1} ]

\* the command line without any argument
DeleteNoArgs ==
    [report |-> FALSE, delete |-> FALSE, dry_run |-> FALSE, tag |-> None, instance |-> None]

\* a variant that accepts an empty --tag
DeleteUsageError_tag_not_none ==
    IF args = DeleteNoArgs THEN "help"
    ELSE IF args.report /\ args.delete THEN "Cannot specify both"
    ELSE IF ~(args.report \/ args.delete) THEN "Must specify either"
    ELSE IF args.tag = None THEN "Must specify --tag"
    ELSE NoError

\* lines 94-96 and 110-120: the usage error of the command line
DeleteUsageError ==
    IF args = DeleteNoArgs THEN "help"
    ELSE IF args.report /\ args.delete THEN "Cannot specify both"
    ELSE IF ~(args.report \/ args.delete) THEN "Must specify either"
    ELSE IF ~Truthy(args.tag) THEN "Must specify --tag"
    ELSE NoError

\* lines 138-150
instance_filters ==
    << Filter("instance-state-name", << "running", "stopped" >>) >>
    \o (IF Truthy(args.instance) THEN << Filter("instance-id", << args.instance >>) >> ELSE << >>)
    \o << Filter("tag-key", << args.tag >>) >>

volume_filters ==
    (IF Truthy(args.instance)
     THEN << Filter("attachment.instance-id", << args.instance >>) >> ELSE << >>)
    \o << Filter("tag-key", << args.tag >>) >>

snapshot_filters == << Filter("tag-key", << args.tag >>) >>

\* a variant that does not look at --dry-run
DeleteForReal_no_dry_run == args.delete

\* lines 160, 180, 200: is the tag deleted, not only listed
DeleteForReal == args.delete /\ ~args.dry_run

\* a variant that passes Tags=[{'Key': key, 'Value': ''}], which deletes the
\* tag only when its value is the empty string
delete_tags_empty_value(resource, key) ==
    [tags EXCEPT ![resource] = SelectSeq(@, LAMBDA t : t # Tag(key, << >>))]

\* lines 161-170: delete_tags(Resources=[resource], Tags=[{'Key': key}])
delete_tags(resource, key) ==
    [tags EXCEPT ![resource] = DeleteTags(@, key)]

\* the except clause of lines 219-221
DeleteFail(call) ==
    /\ calls' = Append(calls, call)
    /\ pc' = "error"
    /\ UNCHANGED << tags, instances, volumes, snapshots >>

DeleteParseArgs ==
    /\ script = "delete" /\ pc = "start"
    /\ IF DeleteUsageError # NoError
       THEN /\ pc' = "usage"
            /\ output' = Append(output, << DeleteUsageError >>)
       ELSE /\ pc' = "session"
            /\ output' = output
    /\ UNCHANGED << script, args, ec2, tags, tags0, instances, volumes, snapshots,
                    calls, event, bucket, files, records, items, topic >>

\* lines 125-135: the session and the client; no request is sent
DeleteSession ==
    /\ script = "delete" /\ pc = "session"
    /\ \E ok \in BOOLEAN :
          IF ok
          THEN pc' = "describe_instances" /\ output' = output
          ELSE pc' = "error" /\ output' = Append(output, << "ERROR: profile" >>)
    /\ UNCHANGED << script, args, ec2, tags, tags0, instances, volumes, snapshots,
                    calls, event, bucket, files, records, items, topic >>

\* line 154
DeleteDescribeInstances ==
    /\ script = "delete" /\ pc = "describe_instances"
    /\ \E ok \in BOOLEAN :
          IF ok
          THEN /\ calls' = Append(calls, Call("describe_instances", None, TRUE))
               /\ instances' = DescribeAll(AllInstances, instance_filters)
               /\ output' = output
               /\ pc' = "instances"
               /\ UNCHANGED << tags, volumes, snapshots >>
          ELSE DeleteFail(Call("describe_instances", None, FALSE))
                 /\ output' = Append(output, << "ERROR" >>)
    /\ UNCHANGED << script, args, ec2, tags0, event, bucket, files, records, items, topic >>

\* one pass of a loop body (lines 157-173, 177-193, 197-213) on `resource`,
\* `rest` advancing the loop; the line printed starts with the id and the value
DeleteOne(resource, rest) ==
    LET line == << resource.id, DeleteSearchForTag(resource.tags, args.tag) >> IN
    IF DeleteForReal
    THEN \E ok \in BOOLEAN :
           IF ok
           THEN /\ calls' = Append(calls, Call("delete_tags", resource.id, TRUE))
                /\ tags' = delete_tags(resource.id, args.tag)
                /\ output' = Append(output, line \o << "Deleted tag" >>)
                /\ rest
           ELSE /\ calls' = Append(calls, Call("delete_tags", resource.id, FALSE))
                /\ output' = output \o << line, << "ERROR" >> >>
                /\ pc' = "error"
                /\ UNCHANGED << tags, instances, volumes, snapshots >>
    ELSE /\ output' = Append(output, line)
         /\ UNCHANGED << tags, calls >>
         /\ rest

\* lines 156-173
DeleteInstanceTag ==
    /\ script = "delete" /\ pc = "instances" /\ instances # << >>
    /\ DeleteOne(Head(instances),
                 instances' = Tail(instances) /\ UNCHANGED << volumes, snapshots, pc >>)
    /\ UNCHANGED << script, args, ec2, tags0, event, bucket, files, records, items, topic >>

\* line 175
DeleteDescribeVolumes ==
    /\ script = "delete" /\ pc = "instances" /\ instances = << >>
    /\ \E ok \in BOOLEAN :
          IF ok
          THEN /\ calls' = Append(calls, Call("describe_volumes", None, TRUE))
               /\ volumes' = DescribeAll(AllVolumes, volume_filters)
               /\ output' = output
               /\ pc' = "volumes"
               /\ UNCHANGED << tags, instances, snapshots >>
          ELSE DeleteFail(Call("describe_volumes", None, FALSE))
                 /\ output' = Append(output, << "ERROR" >>)
    /\ UNCHANGED << script, args, ec2, tags0, event, bucket, files, records, items, topic >>

\* lines 176-193
DeleteVolumeTag ==
    /\ script = "delete" /\ pc = "volumes" /\ volumes # << >>
    /\ DeleteOne(Head(volumes),
                 volumes' = Tail(volumes) /\ UNCHANGED << instances, snapshots, pc >>)
    /\ UNCHANGED << script, args, ec2, tags0, event, bucket, files, records, items, topic >>

\* line 195; every snapshot of the model is owned by the account (OwnerIds self)
DeleteDescribeSnapshots ==
    /\ script = "delete" /\ pc = "volumes" /\ volumes = << >>
    /\ \E ok \in BOOLEAN :
          IF ok
          THEN /\ calls' = Append(calls, Call("describe_snapshots", None, TRUE))
               /\ snapshots' = DescribeAll(AllSnapshots, snapshot_filters)
               /\ output' = output
               /\ pc' = "snapshots"
               /\ UNCHANGED << tags, instances, volumes >>
          ELSE DeleteFail(Call("describe_snapshots", None, FALSE))
                 /\ output' = Append(output, << "ERROR" >>)
    /\ UNCHANGED << script, args, ec2, tags0, event, bucket, files, records, items, topic >>

\* lines 196-213
DeleteSnapshotTag ==
    /\ script = "delete" /\ pc = "snapshots" /\ snapshots # << >>
    /\ DeleteOne(Head(snapshots),
                 snapshots' = Tail(snapshots) /\ UNCHANGED << instances, volumes, pc >>)
    /\ UNCHANGED << script, args, ec2, tags0, event, bucket, files, records, items, topic >>

\* the last loop is exhausted: the script ends
DeleteEnd ==
    /\ script = "delete" /\ pc = "snapshots" /\ snapshots = << >>
    /\ pc' = "done"
    /\ UNCHANGED << script, args, ec2, tags, tags0, instances, volumes, snapshots, calls,
                    output, event, bucket, files, records, items, topic >>

InitDelete ==
    /\ script = "delete"
    /\ tags \in InitialTags
    /\ ec2 \in Accounts
    /\ args \in DeleteArgs
    /\ tags0 = tags
    /\ pc = "start"
    /\ instances = << >> /\ volumes = << >> /\ snapshots = << >>
    /\ calls = << >> /\ output = << >>
    /\ event = NoEvent /\ bucket = << >> /\ files = << >> /\ records = << >>
    /\ items = << >> /\ topic = NoTopic

NextDelete ==
    \/ DeleteParseArgs
    \/ DeleteSession
    \/ DeleteDescribeInstances
    \/ DeleteInstanceTag
    \/ DeleteDescribeVolumes
    \/ DeleteVolumeTag
    \/ DeleteDescribeSnapshots
    \/ DeleteSnapshotTag
    \/ DeleteEnd

SpecDelete == InitDelete /\ [][NextDelete]_vars

---------------------------------------------------------------------------
(* cloudtrail-watch-for-reboot.py *)

MaxFiles == 1
MaxRecords == 2

AlertTopicArn == << "a", "l", "e", "r", "t" >>   \* the tag key 'alert_topic_arn'
I3 == << "i", 3 >>                               \* an instance the account no longer has

\* arn:aws:sns:<region>:<account>:<topic>, one character a field
Arn1 == << "a", ":", "w", ":", "s", ":", "r", ":", "1", ":", "t" >>
Arn2 == << "a", ":", "w", ":", "s", ":", "q", ":", "2", ":", "g", "/", "u" >>
NotAnArn == << "t", ":", "u" >>

Item(i) == [instanceId |-> i]
Params(its) == [instancesSet |-> [items |-> its]]

\* the CloudTrail records a log file may hold
RecordChoices ==
    { [eventName |-> "RebootInstances", eventTime |-> 2,
       requestParameters |-> Params(<< Item(I1), Item(I2) >>)],
      [eventName |-> "RebootInstances", eventTime |-> 1,
       requestParameters |-> Params(<< Item(I2), Item(I3) >>)],
      [eventName |-> "StopInstances", eventTime |-> 1,
       requestParameters |-> Params(<< Item(I1) >>)],
      [eventTime |-> 3, requestParameters |-> Params(<< Item(I2) >>)] }

SeqsUpTo(S, n) == UNION { [1..m -> S] : m \in 0..n }

\* the tag lists the instances may carry when the handler runs
WatchTagLists(r) ==
    CASE r = I1 -> { << Tag(Name, ValA) >>,
                     << Tag(AlertTopicArn, << >>) >>,
                     << Tag(AlertTopicArn, Arn1) >>,
                     << Tag(Name, ValA), Tag(AlertTopicArn, NotAnArn) >> }
      [] r = I2 -> { << >>,
                     << Tag(Name, ValB), Tag(AlertTopicArn, Arn2) >> }
      [] OTHER  -> { << >> }

WatchTags ==
    { t \in [Resources -> UNION { WatchTagLists(r) : r \in Resources }] :
        \A r \in Resources : t[r] \in WatchTagLists(r) }

\* the S3 notification of log file number n
S3Record(n) == [s3 |-> [bucket |-> [name |-> "trail"], object |-> [key |-> n]]]

\* lines 101-104
get_log_file_location(ev) ==
    [n \in DOMAIN ev.Records |->
        << ev.Records[n].s3.bucket.name, ev.Records[n].s3.object.key >>]

\* sorted(records, key=lambda r: r['eventTime']), which is stable
RECURSIVE sorted_records(_)
sorted_records(recs) ==
    IF recs = << >>
    THEN << >>
    ELSE LET init == sorted_records(SubSeq(recs, 1, Len(recs) - 1))
             r == recs[Len(recs)]
             k == Cardinality({ n \in DOMAIN init : init[n].eventTime <= r.eventTime })
         IN  SubSeq(init, 1, k) \o << r >> \o SubSeq(init, k + 1, Len(init))

\* str.split(sep, maxsplit)
RECURSIVE Split(_, _, _)
Split(str, sep, maxsplit) ==
    LET at == { n \in DOMAIN str : str[n] = sep } IN
    IF maxsplit = 0 \/ at = {}
    THEN << str >>
    ELSE << SubSeq(str, 1, Min(at) - 1) >>
         \o Split(SubSeq(str, Min(at) + 1, Len(str)), sep, maxsplit - 1)

\* lines 115-122: elements[5] raises IndexError when the ARN has fewer fields
parse_arn_raises(arn) == Len(Split(arn, ":", 5)) < 6

\* lines 115-129, for an ARN on which it does not raise
parse_arn(arn) ==
    LET elements == Split(arn, ":", 5)
        resource == elements[6]
        parts == IF "/" \in Range(resource) THEN Split(resource, "/", 1)
                 ELSE IF ":" \in Range(resource) THEN Split(resource, ":", 1)
                 ELSE << None, resource >>
    IN  [arn |-> elements[1], partition |-> elements[2], service |-> elements[3],
         region |-> elements[4], account |-> elements[5],
         resource |-> parts[2], resource_type |-> parts[1]]

\* lines 140-146
WatchSearchForTag(list_of_dicts, search_tag) ==
    IF list_of_dicts = << >>
    THEN None
    ELSE LET found == { n \in DOMAIN list_of_dicts : list_of_dicts[n].Key = search_tag }
         IN  IF found # {} THEN list_of_dicts[Min(found)].Value ELSE None

\* lines 159-162
get_ec2_tag_filters(instance_id, tag_key) ==
    << Filter("instance-id", << instance_id >>), Filter("tag-key", << tag_key >>) >>

\* an exception no handler catches leaves main
Crash(call) ==
    /\ calls' = Append(calls, call)
    /\ pc' = "crash"
    /\ UNCHANGED << files, records, items, topic, output >>

\* lines 184-190: main starts on the log files of the event
WatchMain ==
    /\ script = "watch" /\ pc = "start"
    /\ files' = get_log_file_location(event)
    /\ pc' = "files"
    /\ UNCHANGED << script, args, ec2, tags, tags0, instances, volumes, snapshots, calls,
                    output, event, bucket, records, items, topic >>

\* get_records, lines 75-89 (called at line 193)
get_records ==
    /\ script = "watch" /\ pc = "files" /\ files # << >>
    /\ LET key == Head(files)[2] IN
       \E ok \in BOOLEAN :
          IF ok
          THEN /\ calls' = Append(calls, Call("get_object", key, TRUE))
               /\ records' = sorted_records(bucket[key])
               /\ output' = Append(output, << "Loading", key >>)
               /\ files' = Tail(files)
               /\ pc' = "records"
               /\ UNCHANGED << items, topic >>
          ELSE /\ calls' = Append(calls, Call("get_object", key, FALSE))
               /\ output' = output \o << << "Loading", key >>, << "ERROR" >> >>
               /\ pc' = "error"
               /\ UNCHANGED << files, records, items, topic >>
    /\ UNCHANGED << script, args, ec2, tags, tags0, instances, volumes, snapshots,
                    event, bucket >>

\* lines 197-207: the next record of the log file
WatchRecord ==
    /\ script = "watch" /\ pc = "records" /\ records # << >>
    /\ LET record == Head(records) IN
         IF "eventName" \in DOMAIN record /\ record.eventName = "RebootInstances"
         THEN /\ items' = record.requestParameters.instancesSet.items
              /\ pc' = "items"
         ELSE /\ items' = items
              /\ pc' = pc
    /\ records' = Tail(records)
    /\ UNCHANGED << script, args, ec2, tags, tags0, instances, volumes, snapshots, calls,
                    output, event, bucket, files, topic >>

\* the records of the log file are exhausted: the next log file
WatchEndRecords ==
    /\ script = "watch" /\ pc = "records" /\ records = << >>
    /\ pc' = "files"
    /\ UNCHANGED << script, args, ec2, tags, tags0, instances, volumes, snapshots, calls,
                    output, event, bucket, files, records, items, topic >>

\* the items of the record are exhausted: the next record
WatchEndItems ==
    /\ script = "watch" /\ pc = "items" /\ items = << >>
    /\ pc' = "records"
    /\ UNCHANGED << script, args, ec2, tags, tags0, instances, volumes, snapshots, calls,
                    output, event, bucket, files, records, items, topic >>

\* the log files are exhausted: main returns
WatchEnd ==
    /\ script = "watch" /\ pc = "files" /\ files = << >>
    /\ pc' = "done"
    /\ UNCHANGED << script, args, ec2, tags, tags0, instances, volumes, snapshots, calls,
                    output, event, bucket, files, records, items, topic >>

\* lines 165, 173 and 175 of get_ec2_tag: what list(instances) returns.  The
\* request is sent by list(instances), outside the try of lines 164-171.
list_instances(instance_id, tag_key) ==
    DescribeAll(AllInstances, get_ec2_tag_filters(instance_id, tag_key))

\* lines 214-218 and 226-227, sns_topic_arn being the tag get_ec2_tag returned
GotAlertTopic(sns_topic_arn) ==
    IF Truthy(sns_topic_arn)
    THEN IF parse_arn_raises(sns_topic_arn)
         THEN /\ pc' = "crash"
              /\ output' = Append(output, << "Alerting", sns_topic_arn >>)
              /\ UNCHANGED << files, records, items, topic >>
         ELSE /\ pc' = "name_tag"
              /\ topic' = [topic EXCEPT !.sns_topic_arn = sns_topic_arn]
              /\ output' = Append(output, << "Alerting", sns_topic_arn >>)
              /\ UNCHANGED << files, records, items >>
    ELSE /\ pc' = "items"
         /\ items' = Tail(items)
         /\ output' = Append(output, << "not found", Head(items).instanceId >>)
         /\ UNCHANGED << files, records, topic >>

\* line 212, get_ec2_tag up to line 173: the first list(instances)
WatchAlertTopic ==
    /\ script = "watch" /\ pc = "items" /\ items # << >>
    /\ LET instance_id == Head(items).instanceId IN
       \E ok \in BOOLEAN :
          IF ok
          THEN /\ calls' = Append(calls, Call("describe_instances", instance_id, TRUE))
               /\ IF Len(list_instances(instance_id, AlertTopicArn)) = 1
                  THEN /\ pc' = "alert_topic"
                       /\ UNCHANGED << files, records, items, topic, output >>
                  ELSE GotAlertTopic(None)
          ELSE Crash(Call("describe_instances", instance_id, FALSE))
    /\ UNCHANGED << script, args, ec2, tags, tags0, instances, volumes, snapshots,
                    event, bucket >>

\* line 212, get_ec2_tag lines 175-176: the second list(instances)
WatchAlertTopicAgain ==
    /\ script = "watch" /\ pc = "alert_topic"
    /\ LET instance_id == Head(items).instanceId IN
       \E ok \in BOOLEAN :
          IF ok
          THEN /\ calls' = Append(calls, Call("describe_instances", instance_id, TRUE))
               /\ GotAlertTopic(WatchSearchForTag(
                      list_instances(instance_id, AlertTopicArn)[1].tags, AlertTopicArn))
          ELSE Crash(Call("describe_instances", instance_id, FALSE))
    /\ UNCHANGED << script, args, ec2, tags, tags0, instances, volumes, snapshots,
                    event, bucket >>

\* line 219: name_tag is known
GotNameTag(name_tag) ==
    /\ pc' = "publish"
    /\ topic' = [topic EXCEPT !.name_tag = name_tag]
    /\ UNCHANGED << files, records, items, output >>

\* line 219, get_ec2_tag up to line 173: the first list(instances)
WatchNameTag ==
    /\ script = "watch" /\ pc = "name_tag"
    /\ LET instance_id == Head(items).instanceId IN
       \E ok \in BOOLEAN :
          IF ok
          THEN /\ calls' = Append(calls, Call("describe_instances", instance_id, TRUE))
               /\ IF Len(list_instances(instance_id, Name)) = 1
                  THEN /\ pc' = "name_tag_again"
                       /\ UNCHANGED << files, records, items, topic, output >>
                  ELSE GotNameTag(None)
          ELSE Crash(Call("describe_instances", instance_id, FALSE))
    /\ UNCHANGED << script, args, ec2, tags, tags0, instances, volumes, snapshots,
                    event, bucket >>

\* line 219, get_ec2_tag lines 175-176: the second list(instances)
WatchNameTagAgain ==
    /\ script = "watch" /\ pc = "name_tag_again"
    /\ LET instance_id == Head(items).instanceId IN
       \E ok \in BOOLEAN :
          IF ok
          THEN /\ calls' = Append(calls, Call("describe_instances", instance_id, TRUE))
               /\ GotNameTag(WatchSearchForTag(list_instances(instance_id, Name)[1].tags, Name))
          ELSE Crash(Call("describe_instances", instance_id, FALSE))
    /\ UNCHANGED << script, args, ec2, tags, tags0, instances, volumes, snapshots,
                    event, bucket >>

\* lines 220-225: the message is published; no handler catches a failure
WatchPublish ==
    /\ script = "watch" /\ pc = "publish"
    /\ LET target == [TopicArn |-> topic.sns_topic_arn,
                      region |-> parse_arn(topic.sns_topic_arn).region,
                      instance_id |-> Head(items).instanceId,
                      name_tag |-> topic.name_tag]
       IN  \E ok \in BOOLEAN :
             IF ok
             THEN /\ calls' = Append(calls, Call("publish", target, TRUE))
                  /\ items' = Tail(items)
                  /\ topic' = NoTopic
                  /\ pc' = "items"
                  /\ UNCHANGED << files, records, output >>
             ELSE Crash(Call("publish", target, FALSE))
    /\ UNCHANGED << script, args, ec2, tags, tags0, instances, volumes, snapshots,
                    event, bucket >>

InitWatch ==
    /\ script = "watch"
    /\ tags \in WatchTags
    /\ tags0 = tags
    /\ ec2 = CHOOSE a \in Accounts : TRUE
    /\ args = << >>
    /\ \E n \in 0..MaxFiles :
          /\ event = [Records |-> [k \in 1..n |-> S3Record(k)]]
          /\ bucket \in [1..n -> SeqsUpTo(RecordChoices, MaxRecords)]
    /\ pc = "start"
    /\ instances = << >> /\ volumes = << >> /\ snapshots = << >>
    /\ calls = << >> /\ output = << >>
    /\ files = << >> /\ records = << >> /\ items = << >> /\ topic = NoTopic

NextWatch ==
    \/ WatchMain
    \/ get_records
    \/ WatchRecord
    \/ WatchEndRecords
    \/ WatchEndItems
    \/ WatchEnd
    \/ WatchAlertTopic
    \/ WatchAlertTopicAgain
    \/ WatchNameTag
    \/ WatchNameTagAgain
    \/ WatchPublish

SpecWatch == InitWatch /\ [][NextWatch]_vars

---------------------------------------------------------------------------
(* a run of any of the three scripts *)

Init == InitPropagate \/ InitDelete \/ InitWatch

Next == NextPropagate \/ NextDelete \/ NextWatch

Spec == Init /\ [][Next]_vars

---------------------------------------------------------------------------
(* Properties of propagate-tags.py *)

\* the calls of one API issued so far
CallsOf(api) == { n \in DOMAIN calls : calls[n].api = api }

\* a run in --propagate mode
PropagateMode == script = "propagate" /\ args.propagate /\ ~args.report

\* a --propagate run without --dry-run that finished without an API error
PropagateDone == PropagateMode /\ ~args.dry_run /\ pc = "done"

\* the instances the run selects, in the order it handles them
SelectedInstances == Select(tags0, AllInstances, PropagateFilters)

\* the value of the tag on instance i: None when the key is not defined
InstanceValue(i) ==
    IF \E n \in DOMAIN tags0[i] : tags0[i][n].Key = args.tag
    THEN (CHOOSE t \in Range(tags0[i]) : t.Key = args.tag).Value
    ELSE None

\* the selected instances on which the tag is defined with a non-empty value
TaggedInstances ==
    SelectSeq(SelectedInstances, LAMBDA i : InstanceValue(i) \notin {None, << >>})

\* resource r carries the tag key with value v
Carries(r, v) == \E n \in DOMAIN tags[r] : tags[r][n] = Tag(args.tag, v)

\* the volume of a volume or of a snapshot
VolumeOf(r) == IF r \in Snapshots THEN ec2.volume[r] ELSE r

\* C1 as stated: after a --propagate run without --dry-run that finished
\* without an API error, every volume attached to a selected instance on which
\* the tag is defined with a non-empty value, and every snapshot of such a
\* volume, carries the tag with the instance's value.
C1_AsStated ==
    PropagateDone =>
        \A i \in Range(TaggedInstances) :
            \A r \in Volumes \cup Snapshots :
                i \in ec2.attachment[VolumeOf(r)] => Carries(r, InstanceValue(i))

\* C1 amended: after such a run, every volume attached to at least one such
\* instance, and every snapshot of such a volume, carries the tag with the value
\* of the last of these instances in the order of the run; this is the
\* instance's own value when the volume is attached to no other such instance.
C1_LastInstanceWins ==
    PropagateDone =>
        \A r \in Volumes \cup Snapshots :
            LET owners == SelectSeq(TaggedInstances,
                                    LAMBDA i : i \in ec2.attachment[VolumeOf(r)])
            IN  owners # << >> => Carries(r, InstanceValue(owners[Len(owners)]))

\* a finished run that retagged a volume attached to two instances whose
\* values differ, and its snapshot
C1_Witness ==
    /\ PropagateDone
    /\ Range(TaggedInstances) = {I1, I2}
    /\ InstanceValue(I1) # InstanceValue(I2)
    /\ ec2.attachment[V1] = {I1, I2}
    /\ \E n \in CallsOf("create_tags") : calls[n].target = V1
    /\ \E n \in CallsOf("create_tags") : calls[n].target = S1
    /\ tags[V2] # tags0[V2]

\* C2: in --report mode, and in --propagate mode with --dry-run, no create_tags
\* call is issued and every tag list is as it was when the run started.
C2_ReportAndDryRunChangeNothing ==
    (script = "propagate" /\ (args.report \/ args.dry_run)) =>
        /\ CallsOf("create_tags") = {}
        /\ tags = tags0

\* a finished dry run that reported a tag it would have updated
C2_Witness ==
    /\ script = "propagate" /\ pc = "done" /\ args.propagate /\ args.dry_run
    /\ \E n \in DOMAIN output : Len(output[n]) = 4 /\ output[n][4] = "Would Update"

\* a selected instance on which the tag is not defined or has an empty value
Untagged(i) == i \in Range(SelectedInstances) /\ InstanceValue(i) \in {None, << >>}

\* C3 as stated: in --propagate mode no create_tags call is issued for a
\* volume attached to a selected instance on which the tag is not defined or
\* is empty, nor for a snapshot of such a volume.
C3_AsStated ==
    PropagateMode =>
        \A n \in CallsOf("create_tags") :
            \A i \in ec2.attachment[VolumeOf(calls[n].target)] : ~Untagged(i)

\* C3 amended: such an instance is skipped: its volumes are never listed, every
\* create_tags call is for a volume (or a snapshot of a volume) attached to a
\* selected instance that has the tag with a value, and a run that finishes has
\* handled every selected instance, skipping the former and listing the volumes
\* of the latter.
C3_SkippedAndContinues ==
    PropagateMode =>
        /\ \A n \in CallsOf("describe_volumes") : ~Untagged(calls[n].target)
        /\ \A n \in CallsOf("create_tags") :
              \E i \in Range(TaggedInstances) : i \in ec2.attachment[VolumeOf(calls[n].target)]
        /\ pc = "done" =>
              \A i \in Range(SelectedInstances) :
                  IF Untagged(i)
                  THEN \E n \in DOMAIN output : output[n] = << "Skipping", i >>
                  ELSE \E n \in CallsOf("describe_volumes") : calls[n].target = i

\* a finished run that skipped the first instance and then tagged a volume of
\* the second, which is attached to the first as well
C3_Witness ==
    /\ PropagateDone
    /\ Untagged(I1)
    /\ output[2] = << "Skipping", I1 >>
    /\ ec2.attachment[V1] = {I1, I2}
    /\ \E n \in CallsOf("create_tags") : calls[n].target = V1

\* C4 as stated: when --report or --propagate is given without --tag, the
\* script ends before it issues any API call.
C4_TagRequired ==
    (script = "propagate" /\ (args.report \/ args.propagate) /\ args.tag = None) =>
        calls = << >>

---------------------------------------------------------------------------
(* Properties of delete-tag.py *)

\* the resources the three describe calls return, given the tags at the start
Returned ==
    Select(tags0, AllInstances, instance_filters)
    \o Select(tags0, AllVolumes, volume_filters)
    \o Select(tags0, AllSnapshots, snapshot_filters)

\* the resources the run listed so far, one for each line that starts with an id
Listed ==
    LET lines == SelectSeq(output, LAMBDA l : Len(l) >= 2)
    IN  [n \in DOMAIN lines |-> lines[n][1]]

\* the delete_tags calls issued for resource r
DeleteCalls(r) == { n \in CallsOf("delete_tags") : calls[n].target = r }

\* a --delete run without --dry-run that finished without an API error
DeleteDone == script = "delete" /\ args.delete /\ ~args.dry_run /\ pc = "done"

\* C5: after a --delete run without --dry-run that finished without an API
\* error, exactly one delete_tags call was issued for each resource the describe
\* calls return and none of these carries the tag key; every other resource
\* received no call and has the tags it had.
C5_OneDeletePerReturned ==
    DeleteDone =>
        \A r \in Resources :
            IF r \in Range(Returned)
            THEN /\ Cardinality(DeleteCalls(r)) = 1
                 /\ \A n \in DOMAIN tags[r] : tags[r][n].Key # args.tag
            ELSE /\ DeleteCalls(r) = {}
                 /\ tags[r] = tags0[r]

\* a finished run that deleted the tag of an instance, a volume and a snapshot
\* and left another resource alone
C5_Witness ==
    /\ DeleteDone
    /\ Range(Returned) \cap Instances # {}
    /\ Range(Returned) \cap Volumes # {}
    /\ Range(Returned) \cap Snapshots # {}
    /\ \E r \in Resources : r \notin Range(Returned) /\ tags[r] # << >>
    /\ \E r \in Range(Returned) : Len(tags0[r]) = 2 /\ Len(tags[r]) = 1

\* resource r is instance x, a volume attached to it or a snapshot of one
RelatedTo(x, r) ==
    \/ r = x
    \/ r \in Volumes /\ x \in ec2.attachment[r]
    \/ r \in Snapshots /\ x \in ec2.attachment[ec2.volume[r]]

\* C6 as stated: with --instance X, every resource listed and every resource
\* of a delete_tags call is X, a volume attached to X or a snapshot of such a
\* volume.
C6_LimitedToInstance ==
    (script = "delete" /\ args.instance # None /\ args.instance # << >>) =>
        /\ \A n \in DOMAIN Listed : RelatedTo(args.instance, Listed[n])
        /\ \A n \in CallsOf("delete_tags") : RelatedTo(args.instance, calls[n].target)

\* C7: in --report mode, and in --delete mode with --dry-run, no delete_tags
\* call is issued and every tag list stays as it was; and a run that finishes
\* has listed the resources the describe calls return for the tags at the
\* start, whether it deletes or not.
C7_DryRunListsTheSame ==
    script = "delete" =>
        /\ (args.report \/ args.dry_run) => (CallsOf("delete_tags") = {} /\ tags = tags0)
        /\ pc = "done" => Listed = Returned

\* a finished dry run that listed an instance, a volume and a snapshot
C7_Witness ==
    /\ script = "delete" /\ pc = "done" /\ args.delete /\ args.dry_run
    /\ Range(Listed) \cap Instances # {}
    /\ Range(Listed) \cap Volumes # {}
    /\ Range(Listed) \cap Snapshots # {}

\* the command lines C8 is about
DeleteBadArgs ==
    \/ args.report /\ args.delete
    \/ ~args.report /\ ~args.delete
    \/ args.tag = None
    \/ args.tag = << >>

\* C8: with both or neither of --report and --delete, or with --tag missing or
\* empty, the script goes from the check of its arguments to its exit with one
\* usage message: the client is never created and no API call is issued.
C8_UsageErrorBeforeClient ==
    (script = "delete" /\ DeleteBadArgs) =>
        /\ pc \in {"start", "usage"}
        /\ calls = << >>
        /\ tags = tags0
        /\ pc = "usage" => Len(output) = 1

\* the script has exited on --delete with an empty --tag
C8_Witness ==
    /\ script = "delete" /\ pc = "usage"
    /\ args.delete /\ ~args.report /\ args.tag = << >>
    /\ output = << << "Must specify --tag" >> >>

---------------------------------------------------------------------------
(* Properties of cloudtrail-watch-for-reboot.py and of all three scripts *)

RECURSIVE Flatten(_)
Flatten(ss) == IF ss = << >> THEN << >> ELSE Head(ss) \o Flatten(Tail(ss))

\* the items of the RebootInstances records of the event's log files
RebootItems ==
    LET ofRecord(r) == IF "eventName" \in DOMAIN r /\ r.eventName = "RebootInstances"
                       THEN r.requestParameters.instancesSet.items
                       ELSE << >>
        ofFile(k) == Flatten([n \in DOMAIN bucket[k] |-> ofRecord(bucket[k][n])])
    IN  Flatten([n \in DOMAIN event.Records |-> ofFile(event.Records[n].s3.object.key)])

\* the value of tag 'alert_topic_arn' on instance i, None if it has none
AlertTopicOf(i) ==
    IF i \in Instances /\ HasKey(tags0[i], AlertTopicArn)
    THEN (CHOOSE t \in Range(tags0[i]) : t.Key = AlertTopicArn).Value
    ELSE None

\* how many items of RebootItems are for instance i
RebootsOf(i) == Cardinality({ n \in DOMAIN RebootItems : RebootItems[n].instanceId = i })

\* the publish calls made for instance i to topic t
Publishes(i, t) ==
    { n \in CallsOf("publish") :
        calls[n].target.instance_id = i /\ calls[n].target.TopicArn = t }

\* the handler has returned or was ended by an exception
WatchEnded == script = "watch" /\ pc \in {"done", "error", "crash"}

\* C9 as stated: when an invocation has ended and no API call failed, the
\* publish calls made are one for each item of a RebootInstances record whose
\* instance carries a non-empty alert_topic_arn tag, with the tag's value as
\* TopicArn, and no other.
C9_OnePublishPerRebootItem ==
    (WatchEnded /\ \A n \in DOMAIN calls : calls[n].ok) =>
        /\ \A i \in Instances \cup {I3} :
              LET t == AlertTopicOf(i)
              IN  Cardinality(Publishes(i, t))
                      = (IF t \notin {None, << >>} THEN RebootsOf(i) ELSE 0)
        /\ \A n \in CallsOf("publish") :
              calls[n].target.TopicArn = AlertTopicOf(calls[n].target.instance_id)

\* C10 as stated: a failed API call is the last call of the run and is caught
\* at its call site, whose handler ends the process.
C10_FailedCallIsCaught ==
    \A n \in DOMAIN calls :
        ~calls[n].ok => (n = Len(calls) /\ pc = "error")

====
